---- MODULE Spec2Model ----
(***************************************************************************)
(* Model of the golden-master test runner of Altair-C-Basic                *)
(* (compatibility_tests/ahl_games/scripts/ahl_test_runner.py).             *)
(*                                                                         *)
(* Text is modelled as a sequence of character codes, so that the regular  *)
(* expression, the substring tests and the whitespace trimming of the      *)
(* normalization are computed as Python computes them.                     *)
(***************************************************************************)
EXTENDS Integers, Sequences, FiniteSets, TLC

\* ------------------------------------------------------------------------
\* Bounds of the model
\* ------------------------------------------------------------------------

\* Longest raw transcript of SpecNorm, counted in pieces of Vocabulary.
MaxPieces == 3
\* Longest raw transcript of SpecNorm that is built line by line, in lines.
MaxLines == 3
\* SpecRun: the most characters the subject writes to each of its streams.
MaxOut == 2
\* SpecRun: the most helper processes the subject spawns.
MaxHelpers == 2

\* ------------------------------------------------------------------------
\* Characters
\* ------------------------------------------------------------------------

BEL == 7
LF == 10
CR == 13
ESC == 27
SP == 32
LBRACKET == 91

\* [@-Z\\-_] : the byte after ESC of a two-character escape sequence.
FeBytes == (64..90) \cup (92..95)
\* [0-?] : parameter bytes of a CSI sequence.
ParamBytes == 48..63
\* [ -/] : intermediate bytes of a CSI sequence.
IntermediateBytes == 32..47
\* [@-~] : the final byte of a CSI sequence.
FinalBytes == 64..126

\* str.isspace() on the characters below 256.
IsSpace(c) == c \in (9..13) \cup (28..32) \cup {133, 160}

\* ------------------------------------------------------------------------
\* Python string primitives
\* ------------------------------------------------------------------------

\* s.replace(c, '') for a single character c.
Remove(s, c) == SelectSeq(s, LAMBDA x : x # c)

\* sub in s
Contains(s, sub) ==
    \E i \in 1..(Len(s) - Len(sub) + 1) : SubSeq(s, i, i + Len(sub) - 1) = sub

\* s.upper() (ASCII letters)
upper(s) == [i \in 1..Len(s) |-> IF s[i] \in 97..122 THEN s[i] - 32 ELSE s[i]]

RECURSIVE rstrip(_)
rstrip(s) ==
    IF s # <<>> /\ IsSpace(s[Len(s)]) THEN rstrip(SubSeq(s, 1, Len(s) - 1)) ELSE s

RECURSIVE lstrip(_)
lstrip(s) ==
    IF s # <<>> /\ IsSpace(s[1]) THEN lstrip(Tail(s)) ELSE s

strip(s) == lstrip(rstrip(s))

RECURSIVE SplitFrom(_, _, _, _)
SplitFrom(s, i, line, acc) ==
    IF i > Len(s) THEN Append(acc, line)
    ELSE IF s[i] = LF THEN SplitFrom(s, i + 1, <<>>, Append(acc, line))
    ELSE SplitFrom(s, i + 1, Append(line, s[i]), acc)

\* s.split('\n') : always at least one line.
split(s) == SplitFrom(s, 1, <<>>, <<>>)

RECURSIVE join(_)
\* '\n'.join(lines)
join(lines) ==
    IF lines = <<>> THEN <<>>
    ELSE IF Len(lines) = 1 THEN lines[1]
    ELSE lines[1] \o <<LF>> \o join(Tail(lines))

\* ------------------------------------------------------------------------
\* ansi_escape = re.compile(r'\x1B(?:[@-Z\\-_]|\[[0-?]*[ -/]*[@-~])')
\* ------------------------------------------------------------------------

RECURSIVE SkipClass(_, _, _)
\* The index after the longest run of bytes of class cls starting at i.  The
\* three classes of the CSI alternative are pairwise disjoint or ordered so
\* that giving back a byte of a greedy star never enables a match.
SkipClass(s, i, cls) ==
    IF i <= Len(s) /\ s[i] \in cls THEN SkipClass(s, i + 1, cls) ELSE i

\* Length of the match of ansi_escape that starts at index i, 0 if none.
AnsiMatchLen(s, i) ==
    IF s[i] # ESC \/ i = Len(s) THEN 0
    ELSE IF s[i + 1] \in FeBytes THEN 2
    ELSE IF s[i + 1] = LBRACKET THEN
        LET j == SkipClass(s, i + 2, ParamBytes)
            k == SkipClass(s, j, IntermediateBytes)
        IN  IF k <= Len(s) /\ s[k] \in FinalBytes THEN k - i + 1 ELSE 0
    ELSE 0

RECURSIVE AnsiSubFrom(_, _)
AnsiSubFrom(s, i) ==
    IF i > Len(s) THEN <<>>
    ELSE LET n == AnsiMatchLen(s, i)
         IN  IF n > 0 THEN AnsiSubFrom(s, i + n)
             ELSE <<s[i]>> \o AnsiSubFrom(s, i + 1)

\* ansi_escape.sub('', s) : one left-to-right pass over non-overlapping matches.
ansi_escape_sub(s) == AnsiSubFrom(s, 1)

\* ------------------------------------------------------------------------
\* strip_banner
\* ------------------------------------------------------------------------

MICROSOFT_BASIC == <<77, 73, 67, 82, 79, 83, 79, 70, 84, 32, 66, 65, 83, 73, 67>>
ALTAIR == <<65, 76, 84, 65, 73, 82>>
VERSION == <<86, 69, 82, 83, 73, 79, 78>>
VERSION_8K == <<91, 56, 75, 32, 86, 69, 82, 83, 73, 79, 78, 93>>
VERSION_4K == <<91, 52, 75, 32, 86, 69, 82, 83, 73, 79, 78, 93>>
COPYRIGHT == <<67, 79, 80, 89, 82, 73, 71, 72, 84>>
BYTES_FREE == <<66, 89, 84, 69, 83, 32, 70, 82, 69, 69>>
OK == <<79, 75>>

\* The lines the loop drops (continue) while skip_banner is set.
IsBannerLine(line) ==
    \/ Contains(line, MICROSOFT_BASIC)
    \/ Contains(upper(line), ALTAIR) /\ Contains(upper(line), VERSION)
    \/ Contains(line, VERSION_8K) \/ Contains(line, VERSION_4K)
    \/ Contains(line, COPYRIGHT)
    \/ Contains(line, BYTES_FREE)
    \/ strip(line) = OK
    \/ strip(line) = <<>>

RECURSIVE BannerLoop(_, _, _, _)

\* The loop without the skip: every line is appended.
BannerLoop_NoSkip(lines, i, skip_banner, result) ==
    result \o SubSeq(lines, i, Len(lines))

\* The loop with a skip that never ends: the lines it drops while skip_banner
\* is set are dropped wherever they are.
BannerLoop_DropAll(lines, i, skip_banner, result) ==
    result \o SelectSeq(SubSeq(lines, i, Len(lines)), LAMBDA l : ~IsBannerLine(l))

BannerLoop(lines, i, skip_banner, result) ==
    IF i > Len(lines) THEN result
    ELSE IF skip_banner /\ IsBannerLine(lines[i])
         THEN BannerLoop(lines, i + 1, skip_banner, result)
    ELSE LET skip2 == IF skip_banner /\ strip(lines[i]) # <<>> THEN FALSE
                      ELSE skip_banner
         IN  BannerLoop(lines, i + 1, skip2,
                        IF ~skip2 THEN Append(result, lines[i]) ELSE result)

\* The control characters are removed in this order: bell, escape sequences
\* (one pass), carriage return.
StripControl(output) == Remove(ansi_escape_sub(Remove(output, BEL)), CR)

strip_banner(output) ==
    join(BannerLoop(split(StripControl(output)), 1, TRUE, <<>>))

\* ------------------------------------------------------------------------
\* normalize_output
\* ------------------------------------------------------------------------

RECURSIVE PopLeadingEmpty(_)
PopLeadingEmpty(lines) ==
    IF lines # <<>> /\ lines[1] = <<>> THEN PopLeadingEmpty(Tail(lines)) ELSE lines

RECURSIVE PopTrailingEmpty(_)
PopTrailingEmpty(lines) ==
    IF lines # <<>> /\ lines[Len(lines)] = <<>>
    THEN PopTrailingEmpty(SubSeq(lines, 1, Len(lines) - 1))
    ELSE lines

\* normalize_output stripping both ends of every line.
normalize_output_StripLines(output) ==
    LET lines == split(output)
        normalized == [i \in 1..Len(lines) |-> strip(lines[i])]
    IN  join(PopTrailingEmpty(PopLeadingEmpty(normalized)))

normalize_output(output) ==
    LET lines == split(output)
        normalized == [i \in 1..Len(lines) |-> rstrip(lines[i])]
    IN  join(PopTrailingEmpty(PopLeadingEmpty(normalized)))

\* Normalization of a raw transcript as a test run applies it: strip_banner
\* in run_interpreter, then normalize_output in compare_outputs.
normalize(t) == normalize_output(strip_banner(t))

\* The first component of compare_outputs.
compare_outputs(c_output, golden_output) ==
    normalize_output(c_output) = normalize_output(golden_output)

\* difflib: the blocks a[i..i+k-1] = b[j..j+k-1] inside a[alo..ahi], b[blo..bhi].
MatchingBlocks(a, b, alo, ahi, blo, bhi) ==
    {m \in (alo..ahi) \X (blo..bhi) \X (1..(ahi - alo + 1)) :
        /\ m[1] + m[3] - 1 <= ahi
        /\ m[2] + m[3] - 1 <= bhi
        /\ \A d \in 0..(m[3] - 1) : a[m[1] + d] = b[m[2] + d]}

\* difflib: SequenceMatcher.find_longest_match with no junk: a longest
\* block, of those the earliest in a, of those the earliest in b.
find_longest_match(a, b, alo, ahi, blo, bhi) ==
    LET blocks == MatchingBlocks(a, b, alo, ahi, blo, bhi)
    IN  CHOOSE m \in blocks : \A n \in blocks :
            \/ m[3] > n[3]
            \/ m[3] = n[3] /\ m[1] < n[1]
            \/ m[3] = n[3] /\ m[1] = n[1] /\ m[2] <= n[2]

DiffLine(tag, line) == [tag |-> tag, line |-> line, file |-> <<>>, range |-> <<>>]

\* difflib: the lines of the opcodes of a against b. The matching block is
\* found, then the parts to its left and to its right are matched in turn;
\* where nothing matches the lines of a are deleted and those of b inserted.
RECURSIVE OpcodeLines(_, _, _, _, _, _)
OpcodeLines(a, b, alo, ahi, blo, bhi) ==
    IF MatchingBlocks(a, b, alo, ahi, blo, bhi) = {}
    THEN [d \in 1..(ahi - alo + 1) |-> DiffLine("-", a[alo + d - 1])]
            \o [d \in 1..(bhi - blo + 1) |-> DiffLine("+", b[blo + d - 1])]
    ELSE LET m == find_longest_match(a, b, alo, ahi, blo, bhi)
         IN  OpcodeLines(a, b, alo, m[1] - 1, blo, m[2] - 1)
                \o [d \in 1..m[3] |-> DiffLine(" ", a[m[1] + d - 1])]
                \o OpcodeLines(a, b, m[1] + m[3], ahi, m[2] + m[3], bhi)

\* difflib: the range of a hunk header, its beginning and its length.
format_range_unified(length) == <<IF length = 0 THEN 0 ELSE 1, length>>

\* unified_diff called with the actual lines first and the golden lines second.
unified_diff_Swapped(a, b, fromfile, tofile) ==
    IF a = b THEN <<>>
    ELSE << [tag |-> "---", line |-> <<>>, file |-> fromfile, range |-> <<>>],
            [tag |-> "+++", line |-> <<>>, file |-> tofile, range |-> <<>>],
            [tag |-> "@@", line |-> <<>>, file |-> <<>>,
             range |-> format_range_unified(Len(b)) \o format_range_unified(Len(a))] >>
            \o OpcodeLines(b, a, 1, Len(b), 1, Len(a))

\* difflib.unified_diff(a, b, fromfile, tofile, lineterm=''): the two file
\* lines, the hunk header and the lines of the hunk. With at most three
\* equal lines in a row, the context difflib keeps, there is one hunk and it
\* holds every line.
unified_diff(a, b, fromfile, tofile) ==
    IF a = b THEN <<>>
    ELSE << [tag |-> "---", line |-> <<>>, file |-> fromfile, range |-> <<>>],
            [tag |-> "+++", line |-> <<>>, file |-> tofile, range |-> <<>>],
            [tag |-> "@@", line |-> <<>>, file |-> <<>>,
             range |-> format_range_unified(Len(a)) \o format_range_unified(Len(b))] >>
            \o OpcodeLines(a, b, 1, Len(a), 1, Len(b))

\* name of compare_outputs, in pieces.
DiffName(game_name, scenario_name) ==
    IF scenario_name # "" THEN <<game_name, "/", scenario_name>> ELSE <<game_name>>

\* The second component of compare_outputs: None, or the lines of the diff.
compare_outputs_diff(c_output, golden_output, game_name, scenario_name) ==
    LET c_norm == normalize_output(c_output)
        golden_norm == normalize_output(golden_output)
        name == DiffName(game_name, scenario_name)
    IN  IF c_norm = golden_norm THEN [none |-> TRUE, lines |-> <<>>]
        ELSE [none |-> FALSE,
              lines |-> unified_diff(split(golden_norm), split(c_norm),
                                     name \o <<".golden">>, name \o <<".c">>)]

\* ------------------------------------------------------------------------
\* State
\* ------------------------------------------------------------------------

VARIABLES
    \* SpecNorm
    raw,          \* a raw transcript
    once,         \* normalize(raw)
    other,        \* a second transcript derived from raw
    otherNorm,    \* normalize(other); strip_banner(other) when rel = "stripped"
    rel,          \* how other was derived from raw
    match,        \* compare_outputs(raw, other)[0], once they are compared
    diff,         \* the names and compare_outputs(raw, other, names)[1] of that call
    \* Spec: the file system
    regFile,      \* game_registry.json
    golden,       \* GOLDEN_DIR: golden[g][s] is <game>/<scenario>.golden
    gameFiles,    \* the games whose source file is in GAMES_DIR
    scenarioFiles,\* SCENARIOS_DIR: the sorted scenario names of each game
    \* Spec: one invocation of main
    pc,           \* position of the invocation
    cmd,          \* the parsed command line
    registry,     \* the registry loaded by load_registry
    queue,        \* test --all: the games still to test
    allResults,   \* test --all: (game, result of test_game)
    cur,          \* game_name of the running test_game / generate_golden
    idx,          \* index of the next scenario of the loop
    results,      \* test_game: (verdict, scenario) of the scenarios so far
    runs,         \* the run_interpreter calls of the loop and how each ended
    ret,          \* return value of the last test_game
    lastExit,     \* exit code of the last invocation
    history,      \* per game: outcome of its most recent full runs
    \* SpecRun: one call of run_interpreter and the subject it runs
    platform,     \* sys.platform
    environ,      \* BASIC8K_PATH and what is on disk when run_interpreter is called
    interpreter,  \* the value of get_interpreter_path()
    rpc,          \* position of run_interpreter
    child,        \* the subject process (proc)
    helpers,      \* the processes the subject has spawned, in its process group
    out,          \* what the subject has written to its standard output
    err,          \* what the subject has written to its standard error
    exc,          \* the except clause run_interpreter has taken
    excMsg,       \* str(e) of the exception caught
    retval,       \* the return value of run_interpreter
    \* SpecConc: two invocations of main that overlap
    sharedFile,   \* game_registry.json, as both invocations read and write it
    invs,         \* per invocation: its position and the registry it holds
    \* SpecFetch: one call of fetch_url
    retries,      \* the parameter retries
    attempt,      \* the loop variable
    fpc,          \* position of fetch_url
    requests,     \* the requests made so far and how each ended
    slept,        \* the time spent in time.sleep, in units of delay
    fetched       \* the return value of fetch_url

normVars == <<raw, once, other, otherNorm, rel, match, diff>>
fsVars == <<regFile, golden, gameFiles, scenarioFiles>>
mainVars == <<pc, cmd, registry, queue, allResults, cur, idx, results, runs, ret,
              lastExit, history>>
procVars == <<platform, environ, interpreter, rpc, child, helpers, out, err, exc, excMsg,
              retval>>
concVars == <<sharedFile, invs>>
fetchVars == <<retries, attempt, fpc, requests, slept, fetched>>
vars == <<normVars, fsVars, mainVars, procVars, concVars, fetchVars>>

\* What the actions of one part leave alone.
notNorm == <<fsVars, mainVars, procVars, concVars, fetchVars>>
notMain == <<normVars, procVars, concVars, fetchVars>>
notRun == <<normVars, fsVars, mainVars, concVars, fetchVars>>
notConc == <<normVars, fsVars, mainVars, procVars, fetchVars>>
notFetch == <<normVars, fsVars, mainVars, procVars, concVars>>

\* ------------------------------------------------------------------------
\* SpecNorm : the normalization applied to bounded raw transcripts
\* ------------------------------------------------------------------------

\* The pieces raw transcripts are built from: the control characters the
\* normalization treats, and one byte of each class of the escape pattern
\* ('A' is a two-character final and a CSI final, 'm' a CSI final only, '1'
\* a parameter byte, ' ' an intermediate byte).
Vocabulary ==
    {<<ESC>>, <<LBRACKET>>, <<BEL>>, <<CR>>, <<LF>>, <<SP>>, <<65>>, <<109>>, <<49>>}

RECURSIVE Concats(_)
Concats(n) ==
    IF n = 0 THEN {<<>>}
    ELSE Concats(n - 1) \cup {t \o p : t \in Concats(n - 1), p \in Vocabulary}

Transcripts == Concats(MaxPieces)

\* What the control-sequence invariance inserts: a two-character escape, CSI
\* sequences without and with a parameter, a bell.
ControlInsertions ==
    {<<ESC, 65>>, <<ESC, LBRACKET, 109>>, <<ESC, LBRACKET, 49, 109>>, <<BEL>>}

Insert(s, p, e) == SubSeq(s, 1, p) \o e \o SubSeq(s, p + 1, Len(s))

\* Lines of the transcripts built line by line: blank lines, the prompt with
\* and without spaces around it, a banner line, content with and without a
\* trailing space.
Lines == {<<>>, <<SP>>, OK, <<SP>> \o OK \o <<SP>>, COPYRIGHT, <<65>>, <<65, SP>>}

RECURSIVE LineSeqs(_)
LineSeqs(n) ==
    IF n = 0 THEN {<<>>}
    ELSE LineSeqs(n - 1) \cup {Append(ls, l) : ls \in LineSeqs(n - 1), l \in Lines}

LineTranscripts == {join(ls) : ls \in LineSeqs(MaxLines)}

\* "Altair Version", in mixed case.
ALTAIR_MIXED == <<65, 108, 116, 97, 105, 114, 32, 86, 101, 114, 115, 105, 111, 110>>

\* Lines put before a transcript: one for each test of the banner loop, a
\* content line, and lines that hold control characters next to a marker.
PreambleLines ==
    {<<>>, <<SP>>, OK, <<SP>> \o OK, MICROSOFT_BASIC, ALTAIR_MIXED, VERSION_8K,
     VERSION_4K, COPYRIGHT, BYTES_FREE, <<65>>,
     <<BEL>> \o OK, OK \o <<CR>>, <<ESC, LBRACKET, 109>> \o OK,
     <<ESC>> \o COPYRIGHT, <<ESC>> \o MICROSOFT_BASIC}

\* The texts a transcript is compared with.
Goldens == Concats(1) \cup {join(<<a, b>>) : a, b \in Lines}

\* The text run_interpreter returns for a run that timed out.
TIMEOUT_ERROR == <<84, 73, 77, 69, 79, 85, 84, 32, 69, 82, 82, 79, 82>>

\* Lines of the transcripts extract_output reads: "===", "=== END", "RUN", "x".
MarkerLines == {<<61, 61, 61>>, <<61, 61, 61, 32, 69, 78, 68>>, <<82, 85, 78>>, <<120>>}

RECURSIVE MarkerSeqs(_)
MarkerSeqs(n) ==
    IF n = 0 THEN {<<>>}
    ELSE MarkerSeqs(n - 1)
            \cup {Append(ls, l) : ls \in MarkerSeqs(n - 1), l \in MarkerLines}

MarkerTranscripts == {join(ls) : ls \in MarkerSeqs(MaxLines)}

\* No call of compare_outputs yet.
NoComparison ==
    [game_name |-> "", scenario_name |-> "", result |-> [none |-> TRUE, lines |-> <<>>]]

InitNorm ==
    /\ raw \in Transcripts \cup LineTranscripts \cup MarkerTranscripts
                \cup {TIMEOUT_ERROR}
    /\ once = <<>>
    /\ other = <<>>
    /\ otherNorm = <<>>
    /\ rel = "none"
    /\ match = FALSE
    /\ diff = NoComparison

Normalize ==
    /\ rel = "none"
    /\ once' = normalize(raw)
    /\ rel' = "normalized"
    /\ UNCHANGED <<raw, other, otherNorm, match, diff, notNorm>>

NormalizeAgain ==
    /\ rel = "normalized"
    /\ other' = once
    /\ otherNorm' = normalize(once)
    /\ rel' = "again"
    /\ UNCHANGED <<raw, once, match, diff, notNorm>>

InsertControl ==
    /\ rel = "normalized"
    /\ \E p \in 0..Len(raw), e \in ControlInsertions :
          /\ other' = Insert(raw, p, e)
          /\ otherNorm' = normalize(Insert(raw, p, e))
    /\ rel' = "inserted"
    /\ UNCHANGED <<raw, once, match, diff, notNorm>>

\* compare_outputs(raw, g) for a text g, next to the normalization of g.
Compare ==
    /\ rel = "normalized"
    /\ \E g \in Goldens :
          /\ other' = g
          /\ otherNorm' = normalize(g)
          /\ match' = compare_outputs(raw, g)
          /\ \E scenario_name \in {"", "s1"} :
                diff' = [game_name |-> "G1", scenario_name |-> scenario_name,
                         result |-> compare_outputs_diff(raw, g, "G1", scenario_name)]
    /\ rel' = "compared"
    /\ UNCHANGED <<raw, once, notNorm>>

\* The transcript with one more line before it.
AddPreamble ==
    /\ rel = "normalized"
    /\ \E p \in PreambleLines :
          /\ other' = p \o <<LF>> \o raw
          /\ otherNorm' = normalize(p \o <<LF>> \o raw)
    /\ rel' = "preamble"
    /\ UNCHANGED <<raw, once, match, diff, notNorm>>

\* strip_banner alone.
StripBanner ==
    /\ rel = "normalized"
    /\ other' = raw
    /\ otherNorm' = strip_banner(raw)
    /\ rel' = "stripped"
    /\ UNCHANGED <<raw, once, match, diff, notNorm>>

\* ------------------------------------------------------------------------
\* The runner: what the file system holds
\* ------------------------------------------------------------------------

\* Keys of registry["games"].
Games == {"G1", "G2"}
\* sorted(games.keys())
SortedGames == <<"G1", "G2">>
\* Game names of the command line; G0 is in no registry.
GameNames == Games \cup {"G0"}
Scenarios == {"s1", "s2"}

\* g.get("status") of an entry that has no "status" key.
NoStatus == "None"
StatusValues == {"pending", "tested", "failed", NoStatus}

\* f"ERROR: Interpreter not found at {interpreter}", the path being basic8k
INTERPRETER_NOT_FOUND ==
    <<69, 82, 82, 79, 82, 58, 32, 73, 110, 116, 101, 114, 112, 114, 101, 116,
      101, 114, 32, 110, 111, 116, 32, 102, 111, 117, 110, 100, 32, 97, 116,
      32, 98, 97, 115, 105, 99, 56, 107>>
\* "ERROR: "
ERROR_PREFIX == <<69, 82, 82, 79, 82, 58, 32>>

\* A golden file: absent, or present with a text.
Absent == [exists |-> FALSE, text |-> <<>>]
File(text) == [exists |-> TRUE, text |-> text]

\* Subject output "OK\nA \n": a prompt line, then a line with a trailing space.
OutputA == <<79, 75, 10, 65, 32, 10>>

\* ------------------------------------------------------------------------
\* run_interpreter, by how the subject process ends
\* ------------------------------------------------------------------------

\* The local `output` of run_interpreter: exc is the except clause taken
\* ("none" when communicate returns), stdout and stderr what the subject
\* wrote, msg the text of the exception.
RunOutput(o) ==
    CASE o.exc = "none" -> o.stdout \o o.stderr
      [] o.exc = "TimeoutExpired" -> TIMEOUT_ERROR
      [] o.exc = "FileNotFoundError" -> INTERPRETER_NOT_FOUND
      [] OTHER -> ERROR_PREFIX \o o.msg

run_interpreter(o) == strip_banner(RunOutput(o))

Completed(so, se) == [exc |-> "none", stdout |-> so, stderr |-> se, msg |-> <<>>]
Failed(e, so, se) == [exc |-> e, stdout |-> so, stderr |-> se, msg |-> <<>>]

\* The ways a subject run ends in Spec.
Outcomes ==
    {Completed(OutputA, <<>>), Completed(TIMEOUT_ERROR \o <<LF>>, <<>>),
     Failed("TimeoutExpired", OutputA, <<>>), Failed("FileNotFoundError", <<>>, <<>>)}

\* ------------------------------------------------------------------------
\* compare_outputs, test_game, generate_golden, save_registry
\* ------------------------------------------------------------------------

\* test_game without the skip of a scenario that has no golden file: the
\* missing file is read as an empty expected text.
RunScenario_NoSkip(gf, o) ==
    LET c_output == run_interpreter(o)
    IN  [verdict |-> IF gf.exists /\ compare_outputs(c_output, gf.text)
                     THEN "PASS" ELSE "FAIL",
         ran |-> TRUE, c_output |-> c_output]

\* One iteration of the scenario loop of test_game, for the golden file gf of
\* the scenario and the way o the subject run ends if it is run.
RunScenario(gf, o) ==
    IF ~gf.exists
    THEN [verdict |-> "SKIP", ran |-> FALSE, c_output |-> <<>>]
    ELSE LET c_output == run_interpreter(o)
         IN  [verdict |-> IF compare_outputs(c_output, gf.text) THEN "PASS" ELSE "FAIL",
              ran |-> TRUE, c_output |-> c_output]

\* test_game accepting the new output as the golden record on a mismatch.
GoldenAfterTest_Accept(gold, g, s, it) ==
    IF it.verdict = "FAIL" THEN [gold EXCEPT ![g][s] = File(it.c_output)] ELSE gold

\* The golden store after an iteration `it` of the scenario loop of test_game
\* on scenario s of game g: the loop reads golden_path and writes only under
\* RESULTS_DIR.
GoldenAfterTest(gold, g, s, it) == gold

Count(res, v) == Cardinality({i \in 1..Len(res) : res[i].verdict = v})

\* The two tests of the status update in the other order.
NewStatus_PassFirst(old, passed, failed) ==
    IF passed > 0 THEN "tested"
    ELSE IF failed > 0 THEN "failed"
    ELSE old

\* A run without PASS or FAIL resetting the status.
NewStatus_SkipResets(old, passed, failed) ==
    IF failed = 0 /\ passed > 0 THEN "tested"
    ELSE IF failed > 0 THEN "failed"
    ELSE "pending"

\* The status test_game stores, from the status before and the counts.
NewStatus(old, passed, failed) ==
    IF failed = 0 /\ passed > 0 THEN "tested"
    ELSE IF failed > 0 THEN "failed"
    ELSE old

\* One iteration of the loop of generate_golden.
\* generate_golden writing an empty golden file.
GoldenAfterGenerate_Empty(gold, g, s, output) ==
    IF Contains(output, TIMEOUT_ERROR) THEN gold
    ELSE [gold EXCEPT ![g][s] = File(<<>>)]

GoldenAfterGenerate(gold, g, s, output) ==
    IF Contains(output, TIMEOUT_ERROR) THEN gold
    ELSE [gold EXCEPT ![g][s] = File(output)]

CountStatus(games, st) == Cardinality({g \in DOMAIN games : games[g].status = st})

\* save_registry leaving the statistics of the loaded registry as they are.
save_registry_KeepStats(reg) ==
    [games |-> reg.games, last_updated |-> "today", stats |-> reg.stats]

\* The registry save_registry writes (and leaves in memory).
save_registry(reg) ==
    [games |-> reg.games,
     last_updated |-> "today",
     stats |-> [total_games |-> Cardinality(DOMAIN reg.games),
                tested |-> CountStatus(reg.games, "tested"),
                pending |-> CountStatus(reg.games, "pending"),
                failed |-> CountStatus(reg.games, "failed")]]

load_registry(file) == file

\* find_game_file(game_name, registry) is not None
find_game_file(g, reg) == g \in DOMAIN reg.games /\ g \in gameFiles

\* Class of a full run, for the history of a game.
RunClass(passed, failed) ==
    IF failed > 0 THEN "fail" ELSE IF passed > 0 THEN "pass" ELSE "allskip"

\* ------------------------------------------------------------------------
\* Spec : invocations of main, one after the other
\* ------------------------------------------------------------------------

NoCmd == [name |-> "none", game |-> "-"]

Commands ==
    {[name |-> n, game |-> "-"] : n \in {"list", "status", "test_all"}}
    \cup {[name |-> n, game |-> g] : n \in {"test", "generate"}, g \in GameNames}

InitStats ==
    {[total_games |-> 0, tested |-> 0, pending |-> 0, failed |-> 0],
     [total_games |-> 2, tested |-> 2, pending |-> 0, failed |-> 0]}

AllScenarioFiles == [g \in GameNames |->
    IF g = "G1" THEN <<"s1", "s2">> ELSE IF g = "G2" THEN <<"s1">> ELSE <<>>]

\* The game and scenario directories the invocations find: everything in
\* place, the source file of G2 missing, no scenario file of G2.
Worlds ==
    {[files |-> Games, scen |-> AllScenarioFiles],
     [files |-> {"G1"}, scen |-> AllScenarioFiles],
     [files |-> Games, scen |-> [AllScenarioFiles EXCEPT !["G2"] = <<>>]]}

\* The golden store at the start: a golden file is absent or holds "B"; the
\* first one may also hold "TIMEOUT ERROR".
InitGolden ==
    {gold \in [Games -> [Scenarios -> {Absent, File(<<66>>), File(TIMEOUT_ERROR)}]] :
        /\ gold["G1"]["s2"] # File(TIMEOUT_ERROR)
        /\ gold["G2"]["s1"] # File(TIMEOUT_ERROR)
        /\ gold["G2"]["s2"] = Absent}

\* The registry file at the start: every status for G1, with or without the
\* key; G2 pending or tested.
InitGames ==
    {gs \in [Games -> {[status |-> x, scenarios_count |-> 0, file |-> "game.bas"] : x \in StatusValues}] :
        gs["G2"].status \in {"pending", "tested"}}

InitHistory == [g \in Games |-> [last |-> "none", decisive |-> "none"]]

InitMain ==
    /\ regFile \in {[games |-> gs, last_updated |-> "old", stats |-> st] :
                       gs \in InitGames, st \in InitStats}
    /\ golden \in InitGolden
    /\ \E w \in Worlds : gameFiles = w.files /\ scenarioFiles = w.scen
    /\ pc = "idle"
    /\ cmd = NoCmd
    /\ registry = regFile
    /\ queue = <<>>
    /\ allResults = <<>>
    /\ cur = "-"
    /\ idx = 0
    /\ results = <<>>
    /\ runs = <<>>
    /\ ret = "none"
    /\ lastExit = "none"
    /\ history = InitHistory

\* main up to load_registry.
MainStart ==
    /\ pc = "idle"
    /\ \E c \in Commands : cmd' = c
    /\ registry' = load_registry(regFile)
    /\ pc' = "dispatch"
    /\ UNCHANGED <<notMain, fsVars, queue, allResults, cur, idx, results, runs, ret,
                   lastExit, history>>

\* list_games, show_status: they print.
ShowRegistry ==
    /\ pc = "dispatch"
    /\ cmd.name \in {"list", "status"}
    /\ pc' = "finally"
    /\ UNCHANGED <<notMain, fsVars, cmd, registry, queue, allResults, cur, idx, results,
                   runs, ret, lastExit, history>>

\* test --all: the loop over sorted(games.keys()) begins.
TestAllStart ==
    /\ pc = "dispatch"
    /\ cmd.name = "test_all"
    /\ queue' = SelectSeq(SortedGames, LAMBDA g : g \in DOMAIN registry.games)
    /\ allResults' = <<>>
    /\ pc' = "all_loop"
    /\ UNCHANGED <<notMain, fsVars, cmd, registry, cur, idx, results, runs, ret, lastExit,
                   history>>

\* test --all: the next game; it is tested if it has scenario files.
TestAllNext ==
    /\ pc = "all_loop"
    /\ queue # <<>>
    /\ IF scenarioFiles[Head(queue)] # <<>>
       THEN /\ cur' = Head(queue)
            /\ pc' = "tg_enter"
            /\ queue' = queue
       ELSE /\ queue' = Tail(queue)
            /\ UNCHANGED <<cur, pc>>
    /\ UNCHANGED <<notMain, fsVars, cmd, registry, allResults, idx, results, runs, ret,
                   lastExit, history>>

\* test --all: the final summary.
TestAllSummary ==
    /\ pc = "all_loop"
    /\ queue = <<>>
    /\ pc' = "finally"
    /\ UNCHANGED <<notMain, fsVars, cmd, registry, queue, allResults, cur, idx, results,
                   runs, ret, lastExit, history>>

\* test GAME
TestOne ==
    /\ pc = "dispatch"
    /\ cmd.name = "test"
    /\ cur' = cmd.game
    /\ pc' = "tg_enter"
    /\ UNCHANGED <<notMain, fsVars, cmd, registry, queue, allResults, idx, results, runs,
                   ret, lastExit, history>>

\* test_game up to the scenario loop, with its three early returns.
TestGameEnter ==
    /\ pc = "tg_enter"
    /\ results' = <<>>
    /\ runs' = <<>>
    /\ IF cur \notin DOMAIN registry.games \/ ~find_game_file(cur, registry)
       THEN ret' = "False" /\ idx' = 0 /\ pc' = "tg_ret"
       ELSE IF scenarioFiles[cur] = <<>>
       THEN ret' = "None" /\ idx' = 0 /\ pc' = "tg_ret"
       ELSE ret' = "none" /\ idx' = 1 /\ pc' = "tg_loop"
    /\ UNCHANGED <<notMain, fsVars, cmd, registry, queue, allResults, cur, lastExit, history>>

\* test_game: one iteration of the scenario loop.
TestScenario ==
    /\ pc = "tg_loop"
    /\ idx <= Len(scenarioFiles[cur])
    /\ \E o \in Outcomes :
          LET s == scenarioFiles[cur][idx]
              it == RunScenario(golden[cur][s], o)
          IN  /\ results' = Append(results, [verdict |-> it.verdict, name |-> s])
              /\ runs' = IF it.ran THEN Append(runs, [name |-> s, exc |-> o.exc])
                         ELSE runs
              /\ golden' = GoldenAfterTest(golden, cur, s, it)
    /\ idx' = idx + 1
    /\ UNCHANGED <<notMain, regFile, gameFiles, scenarioFiles, pc, cmd, registry, queue,
                   allResults, cur, ret, lastExit, history>>

\* The registry update of test_game also marking every other game pending.
TestGameSummary_ResetsOthers ==
    /\ pc = "tg_loop"
    /\ idx > Len(scenarioFiles[cur])
    /\ LET passed == Count(results, "PASS")
           failed == Count(results, "FAIL")
       IN  /\ registry' = [registry EXCEPT !.games = [g \in DOMAIN registry.games |->
                  IF g = cur
                  THEN [registry.games[g] EXCEPT
                           !.scenarios_count = Len(scenarioFiles[cur]),
                           !.status = NewStatus(@, passed, failed)]
                  ELSE [registry.games[g] EXCEPT !.status = "pending"]]]
           /\ ret' = IF failed = 0 THEN "True" ELSE "False"
           /\ history' = [history EXCEPT ![cur] =
                  [last |-> RunClass(passed, failed),
                   decisive |-> IF passed + failed > 0
                                THEN RunClass(passed, failed) ELSE @.decisive]]
    /\ pc' = "tg_ret"
    /\ UNCHANGED <<notMain, fsVars, cmd, queue, allResults, cur, idx, results, runs, lastExit>>

\* test_game after the loop: the summary, the registry update, the return.
TestGameSummary ==
    /\ pc = "tg_loop"
    /\ idx > Len(scenarioFiles[cur])
    /\ LET passed == Count(results, "PASS")
           failed == Count(results, "FAIL")
       IN  /\ registry' = [registry EXCEPT
                  !.games[cur].scenarios_count = Len(scenarioFiles[cur]),
                  !.games[cur].status = NewStatus(@, passed, failed)]
           /\ ret' = IF failed = 0 THEN "True" ELSE "False"
           /\ history' = [history EXCEPT ![cur] =
                  [last |-> RunClass(passed, failed),
                   decisive |-> IF passed + failed > 0
                                THEN RunClass(passed, failed) ELSE @.decisive]]
    /\ pc' = "tg_ret"
    /\ UNCHANGED <<notMain, fsVars, cmd, queue, allResults, cur, idx, results, runs, lastExit>>

\* Back in main after test_game.
TestGameReturn ==
    /\ pc = "tg_ret"
    /\ IF cmd.name = "test_all"
       THEN /\ allResults' = Append(allResults, <<cur, ret>>)
            /\ queue' = Tail(queue)
            /\ pc' = "all_loop"
       ELSE /\ pc' = "finally"
            /\ UNCHANGED <<allResults, queue>>
    /\ UNCHANGED <<notMain, fsVars, cmd, registry, cur, idx, results, runs, ret, lastExit,
                   history>>

\* generate GAME: generate_golden up to its loop, with its early returns.
GenerateStart ==
    /\ pc = "dispatch"
    /\ cmd.name = "generate"
    /\ cur' = cmd.game
    /\ runs' = <<>>
    /\ IF ~find_game_file(cmd.game, registry) \/ scenarioFiles[cmd.game] = <<>>
       THEN idx' = 0 /\ pc' = "finally"
       ELSE idx' = 1 /\ pc' = "gen_loop"
    /\ UNCHANGED <<notMain, fsVars, cmd, registry, queue, allResults, results, ret, lastExit,
                   history>>

\* generate_golden: one iteration of the scenario loop.
GenerateScenario ==
    /\ pc = "gen_loop"
    /\ idx <= Len(scenarioFiles[cur])
    /\ \E o \in Outcomes :
          LET s == scenarioFiles[cur][idx]
          IN  /\ golden' = GoldenAfterGenerate(golden, cur, s, run_interpreter(o))
              /\ runs' = Append(runs, [name |-> s, exc |-> o.exc])
    /\ idx' = idx + 1
    /\ UNCHANGED <<notMain, regFile, gameFiles, scenarioFiles, pc, cmd, registry, queue,
                   allResults, cur, results, ret, lastExit, history>>

GenerateDone ==
    /\ pc = "gen_loop"
    /\ idx > Len(scenarioFiles[cur])
    /\ pc' = "finally"
    /\ UNCHANGED <<notMain, fsVars, cmd, registry, queue, allResults, cur, idx, results,
                   runs, ret, lastExit, history>>

\* The finally clause of main: save_registry, then return 0.  The locals of
\* the invocation are gone with it.
SaveRegistry ==
    /\ pc = "finally"
    /\ regFile' = save_registry(registry)
    /\ registry' = save_registry(registry)
    /\ lastExit' = "0"
    /\ pc' = "idle"
    /\ cmd' = NoCmd
    /\ queue' = <<>>
    /\ allResults' = <<>>
    /\ cur' = "-"
    /\ idx' = 0
    /\ results' = <<>>
    /\ runs' = <<>>
    /\ ret' = "none"
    /\ UNCHANGED <<notMain, golden, gameFiles, scenarioFiles, history>>

NextMain ==
    \/ MainStart \/ ShowRegistry
    \/ TestAllStart \/ TestAllNext \/ TestAllSummary
    \/ TestOne \/ TestGameEnter \/ TestScenario \/ TestGameSummary \/ TestGameReturn
    \/ GenerateStart \/ GenerateScenario \/ GenerateDone
    \/ SaveRegistry

\* ------------------------------------------------------------------------
\* SpecRun : one call of run_interpreter, with the subject's process tree
\* ------------------------------------------------------------------------

\* str(e) of a launch failure other than FileNotFoundError:
\* "[Errno 13] Permission denied: 'basic8k'"
PERMISSION_DENIED ==
    <<91, 69, 114, 114, 110, 111, 32, 49, 51, 93, 32, 80, 101, 114, 109, 105,
      115, 115, 105, 111, 110, 32, 100, 101, 110, 105, 101, 100, 58, 32, 39,
      98, 97, 115, 105, 99, 56, 107, 39>>

Running(hs) == {i \in 1..Len(hs) : hs[i] = "running"}

\* os.environ.get("BASIC8K_PATH") without the variable.
NoEnv == "None"
\* What sys.exit(1) leaves get_interpreter_path with: no value.
SYS_EXIT == "sys.exit(1)"

\* build_dir / exe_name
DefaultPath(pf) == IF pf = "win32" THEN "build/basic8k.exe" ELSE "build/basic8k"

\* get_interpreter_path() for the environment e on platform pf: e.override_exists
\* is Path(env_path).exists(), e.built is interpreter.exists() before the
\* build, e.build_ok that build_interpreter() returns True and leaves the
\* interpreter there.
get_interpreter_path(e, pf) ==
    IF e.BASIC8K_PATH \notin {NoEnv, ""} /\ e.override_exists THEN e.BASIC8K_PATH
    ELSE IF e.built THEN DefaultPath(pf)
    ELSE IF e.build_ok THEN DefaultPath(pf)
    ELSE SYS_EXIT

Environs ==
    {e \in [BASIC8K_PATH : {NoEnv, "", "/opt/basic8k"}, override_exists : BOOLEAN,
            built : BOOLEAN, build_ok : BOOLEAN] :
        e.BASIC8K_PATH \in {NoEnv, ""} => ~e.override_exists}

InitRun ==
    /\ platform \in {"win32", "unix"}
    /\ environ \in Environs
    /\ interpreter = "none"
    /\ rpc = "start"
    /\ child = "none"
    /\ helpers = <<>>
    /\ out = <<>>
    /\ err = <<>>
    /\ exc = "none"
    /\ excMsg = <<>>
    /\ retval = <<>>

\* get_interpreter_path finds no interpreter and cannot build one: sys.exit(1)
\* before the try statement.
InterpreterMissing ==
    /\ rpc = "start"
    /\ get_interpreter_path(environ, platform) = SYS_EXIT
    /\ rpc' = "sys_exit"
    /\ UNCHANGED <<notRun, platform, environ, interpreter, child, helpers, out, err, exc, excMsg, retval>>

\* interpreter = get_interpreter_path(), then the input file is read.
InterpreterFound ==
    /\ rpc = "start"
    /\ get_interpreter_path(environ, platform) # SYS_EXIT
    /\ interpreter' = get_interpreter_path(environ, platform)
    /\ rpc' = "try"
    /\ UNCHANGED <<notRun, platform, environ, child, helpers, out, err, exc, excMsg, retval>>

\* subprocess.Popen starts the subject in a new process group (win32) or a
\* new session (elsewhere).
Popen ==
    /\ rpc = "try"
    /\ child' = "running"
    /\ rpc' = "communicate"
    /\ UNCHANGED <<notRun, platform, environ, interpreter, helpers, out, err, exc, excMsg, retval>>

\* subprocess.Popen raises: the executable is gone (FileNotFoundError) or is
\* not runnable (another exception).
PopenFails ==
    /\ rpc = "try"
    /\ \/ exc' = "FileNotFoundError" /\ excMsg' = <<>>
       \/ exc' = "Exception" /\ excMsg' = PERMISSION_DENIED
    /\ rpc' = "caught"
    /\ UNCHANGED <<notRun, platform, environ, interpreter, child, helpers, out, err, retval>>

\* The subject writes a character to its standard output.
SubjectWritesOut ==
    /\ child = "running"
    /\ Len(out) < MaxOut
    /\ out' = Append(out, 65)
    /\ UNCHANGED <<notRun, platform, environ, interpreter, rpc, child, helpers, err, exc, excMsg, retval>>

\* The subject writes a character to its standard error.
SubjectWritesErr ==
    /\ child = "running"
    /\ Len(err) < MaxOut
    /\ err' = Append(err, 69)
    /\ UNCHANGED <<notRun, platform, environ, interpreter, rpc, child, helpers, out, exc, excMsg, retval>>

\* The subject spawns a helper process; it inherits the process group and the
\* pipes of the subject.
SubjectSpawns ==
    /\ child = "running"
    /\ Len(helpers) < MaxHelpers
    /\ helpers' = Append(helpers, "running")
    /\ UNCHANGED <<notRun, platform, environ, interpreter, rpc, child, out, err, exc, excMsg, retval>>

\* The subject exits by itself; it stays a zombie until it is reaped.
SubjectExits ==
    /\ child = "running"
    /\ child' = "exited"
    /\ UNCHANGED <<notRun, platform, environ, interpreter, rpc, helpers, out, err, exc, excMsg, retval>>

\* A helper exits by itself.
HelperExits ==
    /\ \E i \in Running(helpers) : helpers' = [helpers EXCEPT ![i] = "dead"]
    /\ UNCHANGED <<notRun, platform, environ, interpreter, rpc, child, out, err, exc, excMsg, retval>>

\* communicate returns: the subject has exited and both pipes are at end of
\* file (no process holds their write ends); the subject is reaped.
CommunicateReturns ==
    /\ rpc = "communicate"
    /\ child = "exited"
    /\ Running(helpers) = {}
    /\ child' = "reaped"
    /\ rpc' = "caught"
    /\ UNCHANGED <<notRun, platform, environ, interpreter, helpers, out, err, exc, excMsg, retval>>

\* communicate raises TimeoutExpired: the deadline passes while the subject
\* runs or a helper holds a pipe open.
Deadline ==
    /\ rpc = "communicate"
    /\ child = "running" \/ Running(helpers) # {}
    /\ exc' = "TimeoutExpired"
    /\ rpc' = "timeout"
    /\ UNCHANGED <<notRun, platform, environ, interpreter, child, helpers, out, err, excMsg, retval>>

\* What the kill of the except clause ends: proc.kill() the subject alone,
\* os.killpg(os.getpgid(proc.pid), SIGKILL) every process of its group.
KilledHelpers(pf, hs) ==
    IF pf = "win32" THEN hs ELSE [i \in 1..Len(hs) |-> "dead"]

\* The except clause of TimeoutExpired: the kill.
Kill ==
    /\ rpc = "timeout"
    /\ child' = IF child = "running" THEN "exited" ELSE child
    /\ helpers' = KilledHelpers(platform, helpers)
    /\ rpc' = "kill_sent"
    /\ UNCHANGED <<notRun, platform, environ, interpreter, out, err, exc, excMsg, retval>>

\* The except clause of TimeoutExpired: proc.wait() reaps the subject.
Wait ==
    /\ rpc = "kill_sent"
    /\ child = "exited"
    /\ child' = "reaped"
    /\ rpc' = "caught"
    /\ UNCHANGED <<notRun, platform, environ, interpreter, helpers, out, err, exc, excMsg, retval>>

\* return strip_banner(output)
Return ==
    /\ rpc = "caught"
    /\ retval' = run_interpreter([exc |-> exc, stdout |-> out, stderr |-> err,
                                  msg |-> excMsg])
    /\ rpc' = "returned"
    /\ UNCHANGED <<notRun, platform, environ, interpreter, child, helpers, out, err, exc, excMsg>>

NextRun ==
    \/ InterpreterMissing \/ InterpreterFound \/ Popen \/ PopenFails
    \/ SubjectWritesOut \/ SubjectWritesErr \/ SubjectSpawns \/ SubjectExits
    \/ HelperExits
    \/ CommunicateReturns \/ Deadline \/ Kill \/ Wait \/ Return

\* ------------------------------------------------------------------------
\* The other normalizations and comparisons of the repository
\* ------------------------------------------------------------------------

\* line.split() : the maximal runs of characters that are not whitespace.
RECURSIVE WordsFrom(_, _, _, _)
WordsFrom(s, i, word, acc) ==
    IF i > Len(s) THEN (IF word = <<>> THEN acc ELSE Append(acc, word))
    ELSE IF IsSpace(s[i])
         THEN WordsFrom(s, i + 1, <<>>, IF word = <<>> THEN acc ELSE Append(acc, word))
    ELSE WordsFrom(s, i + 1, Append(word, s[i]), acc)

\* ' '.join(items)
RECURSIVE JoinSpaces(_)
JoinSpaces(items) ==
    IF items = <<>> THEN <<>>
    ELSE IF Len(items) = 1 THEN items[1]
    ELSE items[1] \o <<SP>> \o JoinSpaces(Tail(items))

\* test_harness.py: normalize_output
harness_normalize_output(text) ==
    LET lines == split(strip(text))
    IN  join([k \in 1..Len(lines) |-> JoinSpaces(WordsFrom(lines[k], 1, <<>>, <<>>))])

\* test_harness.py: compare_outputs returns None
harness_compare_outputs(golden_text, actual) ==
    split(harness_normalize_output(golden_text)) = split(harness_normalize_output(actual))

\* run_hamurabi_test.py: the loop of normalize_output
RECURSIVE HamurabiLoop(_, _, _)
HamurabiLoop(lines, i, normalized) ==
    IF i > Len(lines) THEN normalized
    ELSE LET line == rstrip(lines[i])
         IN  HamurabiLoop(lines, i + 1,
                          IF line # <<>> \/ normalized # <<>>
                          THEN Append(normalized, line) ELSE normalized)

\* run_hamurabi_test.py: normalize_output
hamurabi_normalize_output(output) ==
    join(PopTrailingEmpty(HamurabiLoop(split(strip(output)), 1, <<>>)))

\* run_hamurabi_test.py: the first component of compare_outputs
hamurabi_compare_outputs(c_output, simh_output) ==
    hamurabi_normalize_output(c_output) = hamurabi_normalize_output(simh_output)

\* The banner lines of gen_golden.py and generate_golden_simple.py: ALTAIR
\* alone, in upper case, is a marker.
AltairBannerLine(line) ==
    \/ Contains(line, MICROSOFT_BASIC) \/ Contains(line, ALTAIR)
    \/ Contains(line, VERSION_8K) \/ Contains(line, VERSION_4K)
    \/ Contains(line, COPYRIGHT) \/ Contains(line, BYTES_FREE)
    \/ strip(line) = OK
    \/ strip(line) = <<>>

\* The banner loop of the three standalone generators: each appends
\* line.rstrip(); altair tells which banner lines it drops.
RECURSIVE GeneratorLoop(_, _, _, _, _)
GeneratorLoop(lines, i, skip, result, altair) ==
    IF i > Len(lines) THEN result
    ELSE IF skip /\ (IF altair THEN AltairBannerLine(lines[i]) ELSE IsBannerLine(lines[i]))
         THEN GeneratorLoop(lines, i + 1, skip, result, altair)
    ELSE GeneratorLoop(lines, i + 1, FALSE, Append(result, rstrip(lines[i])), altair)

\* gen_golden.py: bell and carriage return are removed before the escape
\* sequences.
gen_golden(output) ==
    join(PopTrailingEmpty(PopLeadingEmpty(
        GeneratorLoop(split(ansi_escape_sub(Remove(Remove(output, BEL), CR))),
                      1, TRUE, <<>>, TRUE))))

\* generate_golden_simple.py: strip_banner removes no control character.
simple_strip_banner(output) ==
    join(PopTrailingEmpty(GeneratorLoop(split(output), 1, TRUE, <<>>, TRUE)))

\* generate_loop_game_golden.py: strip_banner
loop_strip_banner(output) ==
    join(PopTrailingEmpty(GeneratorLoop(split(StripControl(output)), 1, TRUE, <<>>, FALSE)))

StandaloneGolden(gen, output) ==
    CASE gen = "gen_golden" -> gen_golden(output)
      [] gen = "generate_golden_simple" -> simple_strip_banner(output)
      [] OTHER -> loop_strip_banner(output)

RUN == <<82, 85, 78>>
EQUALS3 == <<61, 61, 61>>
END == <<69, 78, 68>>
EQUALS3_END == <<61, 61, 61, 32, 69, 78, 68>>

\* test_harness.py: the loop of extract_output; the break ends it.
RECURSIVE ExtractLoop(_, _, _, _, _, _)
ExtractLoop(lines, i, capturing, found_run, output, require_run) ==
    IF i > Len(lines) THEN output
    ELSE LET line == rstrip(Remove(lines[i], CR))
         IN  IF require_run /\ Contains(line, RUN) /\ ~found_run
             THEN ExtractLoop(lines, i + 1, capturing, TRUE, output, require_run)
             ELSE IF ~found_run
             THEN ExtractLoop(lines, i + 1, capturing, found_run, output, require_run)
             ELSE IF Contains(line, EQUALS3) /\ ~Contains(upper(line), END)
             THEN ExtractLoop(lines, i + 1, TRUE, found_run, Append(output, line),
                              require_run)
             ELSE IF Contains(upper(line), EQUALS3_END)
             THEN Append(output, line)
             ELSE IF capturing
             THEN ExtractLoop(lines, i + 1, capturing, found_run, Append(output, line),
                              require_run)
             ELSE ExtractLoop(lines, i + 1, capturing, found_run, output, require_run)

\* test_harness.py: extract_output
extract_output(text, require_run) ==
    join(ExtractLoop(split(text), 1, FALSE, ~require_run, <<>>, require_run))

\* ------------------------------------------------------------------------
\* SpecNorm, continued
\* ------------------------------------------------------------------------

\* normalize_output alone.
NormalizeOutput ==
    /\ rel = "normalized"
    /\ other' = raw
    /\ otherNorm' = normalize_output(raw)
    /\ rel' = "normalized_output"
    /\ UNCHANGED <<raw, once, match, diff, notNorm>>

\* The positions of t where a line that is not blank begins.
ContentLineStarts(t) ==
    {p \in 0..(Len(t) - 1) :
        /\ p = 0 \/ t[p] = LF
        /\ \E q \in (p + 1)..Len(t) :
              ~IsSpace(t[q]) /\ \A k \in (p + 1)..q : t[k] # LF}

\* test_harness.py compares the transcript with itself, one line indented.
IndentHarness ==
    /\ rel = "normalized"
    /\ \E p \in ContentLineStarts(raw) :
          /\ other' = Insert(raw, p, <<SP>>)
          /\ match' = harness_compare_outputs(raw, Insert(raw, p, <<SP>>))
    /\ rel' = "indented_harness"
    /\ UNCHANGED <<raw, once, otherNorm, diff, notNorm>>

\* run_hamurabi_test.py compares the transcript with itself, one line indented.
IndentHamurabi ==
    /\ rel = "normalized"
    /\ \E p \in ContentLineStarts(raw) :
          /\ other' = Insert(raw, p, <<SP>>)
          /\ match' = hamurabi_compare_outputs(Insert(raw, p, <<SP>>), raw)
    /\ rel' = "indented_hamurabi"
    /\ UNCHANGED <<raw, once, otherNorm, diff, notNorm>>

\* generate_golden stores the golden file of a scenario whose subject writes
\* raw; then test_game runs the scenario and the subject writes raw again.
RoundTrip ==
    /\ rel = "normalized"
    /\ LET o == Completed(raw, <<>>)
           gold == GoldenAfterGenerate([g \in {"G1"} |-> [s \in {"s1"} |-> Absent]],
                                       "G1", "s1", run_interpreter(o))
           it == RunScenario(gold["G1"]["s1"], o)
       IN  /\ other' = gold["G1"]["s1"].text
           /\ otherNorm' = it.c_output
           /\ match' = (it.verdict = "PASS")
           /\ rel' = IF gold["G1"]["s1"].exists THEN "round_trip" ELSE "not_stored"
    /\ UNCHANGED <<raw, once, diff, notNorm>>

\* A standalone generator makes the golden text of raw, and compare_outputs
\* of the runner compares the runner's strip_banner(raw) with it.
GenerateStandalone ==
    /\ rel = "normalized"
    /\ \E gen \in {"gen_golden", "generate_golden_simple", "generate_loop_game_golden"} :
          /\ other' = StandaloneGolden(gen, raw)
          /\ otherNorm' = strip_banner(raw)
          /\ match' = compare_outputs(strip_banner(raw), StandaloneGolden(gen, raw))
          /\ rel' = gen
    /\ UNCHANGED <<raw, once, diff, notNorm>>

\* extract_output, with and without require_run.
ExtractOutput ==
    /\ rel = "normalized"
    /\ \E require_run \in BOOLEAN :
          /\ other' = raw
          /\ otherNorm' = extract_output(raw, require_run)
          /\ rel' = IF require_run THEN "extracted_after_run" ELSE "extracted"
    /\ UNCHANGED <<raw, once, match, diff, notNorm>>

NextNorm ==
    \/ Normalize \/ NormalizeAgain \/ InsertControl
    \/ Compare \/ AddPreamble \/ StripBanner
    \/ NormalizeOutput \/ IndentHarness \/ IndentHamurabi
    \/ RoundTrip \/ GenerateStandalone \/ ExtractOutput

\* ------------------------------------------------------------------------
\* SpecFetch : one call of fetch_url of download_games.py
\* ------------------------------------------------------------------------

MaxRetries == 3

\* What fetch_url returns when it returns no body.
None == "None"

\* How one request can end: response.read() returns a body, or urlopen or
\* read raise an HTTPError, a URLError or another Exception.
Responses ==
    {[kind |-> "ok", code |-> 200, body |-> b] : b \in {"body1", "body2"}}
        \cup {[kind |-> "HTTPError", code |-> c, body |-> ""] : c \in {404, 403, 500}}
        \cup {[kind |-> k, code |-> 0, body |-> ""] : k \in {"URLError", "Exception"}}

\* A 404 is taken for any error.
AfterRequest_Retry404(response) ==
    IF response.kind = "ok" THEN "returned"
    ELSE IF response.kind = "HTTPError" /\ response.code = 403 THEN "rate_limited"
    ELSE "failed"

\* Where fetch_url goes when a request has ended.
AfterRequest(response) ==
    IF response.kind = "ok" THEN "returned"
    ELSE IF response.kind = "HTTPError" /\ response.code = 404 THEN "returned"
    ELSE IF response.kind = "HTTPError" /\ response.code = 403 THEN "rate_limited"
    ELSE "failed"

InitFetch ==
    /\ retries \in 0..MaxRetries
    /\ attempt = 0
    /\ fpc = "loop"
    /\ requests = <<>>
    /\ slept = 0
    /\ fetched = None

\* One turn of the loop up to the end of its request.
FetchRequest ==
    /\ fpc = "loop"
    /\ attempt < retries
    /\ \E response \in Responses :
          /\ requests' = Append(requests, response)
          /\ fpc' = AfterRequest(response)
          /\ fetched' = IF response.kind = "ok" THEN response.body ELSE None
    /\ UNCHANGED <<retries, attempt, slept, notFetch>>

\* HTTP 403: time.sleep(delay * (attempt + 1)), in units of delay.
RateLimitSleep ==
    /\ fpc = "rate_limited"
    /\ slept' = slept + (attempt + 1)
    /\ fpc' = "failed"
    /\ UNCHANGED <<retries, attempt, requests, fetched, notFetch>>

\* The end of a turn whose request failed: time.sleep(delay) unless it was
\* the last turn.
NextAttempt ==
    /\ fpc = "failed"
    /\ slept' = IF attempt < retries - 1 THEN slept + 1 ELSE slept
    /\ attempt' = attempt + 1
    /\ fpc' = "loop"
    /\ UNCHANGED <<retries, requests, fetched, notFetch>>

\* range(retries) is exhausted: return None.
FetchExhausted ==
    /\ fpc = "loop"
    /\ attempt >= retries
    /\ fetched' = None
    /\ fpc' = "returned"
    /\ UNCHANGED <<retries, attempt, requests, slept, notFetch>>

NextFetch == FetchRequest \/ RateLimitSleep \/ NextAttempt \/ FetchExhausted

\* ------------------------------------------------------------------------
\* SpecConc : two invocations `test G1` and `test G2` that overlap in time
\* ------------------------------------------------------------------------

Invocations == {1, 2}

\* The game each invocation tests.
GameOf(i) == IF i = 1 THEN "G1" ELSE "G2"

\* The registry files the two invocations start from.
ConcFiles ==
    {[games |-> gs, last_updated |-> "old",
      stats |-> [total_games |-> 2, tested |-> 0, pending |-> 2, failed |-> 0]] :
        gs \in [Games -> {[status |-> x, scenarios_count |-> 0, file |-> "game.bas"] :
                             x \in {"pending", "tested", "failed"}}]}

InitConc ==
    /\ sharedFile \in ConcFiles
    /\ invs = [i \in Invocations |-> [pc |-> "start", registry |-> sharedFile]]

\* main: registry = load_registry()
ConcLoad ==
    /\ \E i \in Invocations :
          /\ invs[i].pc = "start"
          /\ invs' = [invs EXCEPT ![i] = [pc |-> "loaded",
                                          registry |-> load_registry(sharedFile)]]
    /\ UNCHANGED <<sharedFile, notConc>>

\* main: test_game on the game of the invocation, the scenario verdicts
\* counted as passed and failed; it updates the registry the invocation holds.
ConcTestGame ==
    /\ \E i \in Invocations, passed \in 0..1, failed \in 0..1 :
          /\ invs[i].pc = "loaded"
          /\ invs' = [invs EXCEPT
                 ![i].pc = "tested",
                 ![i].registry.games[GameOf(i)].scenarios_count =
                     Len(AllScenarioFiles[GameOf(i)]),
                 ![i].registry.games[GameOf(i)].status = NewStatus(@, passed, failed)]
    /\ UNCHANGED <<sharedFile, notConc>>

\* main: the finally clause, save_registry writes the whole registry the
\* invocation holds.
ConcSave ==
    /\ \E i \in Invocations :
          /\ invs[i].pc = "tested"
          /\ sharedFile' = save_registry(invs[i].registry)
          /\ invs' = [invs EXCEPT ![i].pc = "done",
                                   ![i].registry = save_registry(@)]
    /\ UNCHANGED notConc

NextConc == ConcLoad \/ ConcTestGame \/ ConcSave

\* ------------------------------------------------------------------------
\* Specifications
\* ------------------------------------------------------------------------

IdleConc ==
    /\ sharedFile = [games |-> [g \in Games |-> [status |-> "pending", scenarios_count |-> 0, file |-> "game.bas"]],
                     last_updated |-> "old",
                     stats |-> [total_games |-> 2, tested |-> 0, pending |-> 2, failed |-> 0]]
    /\ invs = [i \in Invocations |-> [pc |-> "start", registry |-> sharedFile]]

\* The variables of a part the specification does not exercise.
IdleNorm ==
    /\ raw = <<>> /\ once = <<>> /\ other = <<>> /\ otherNorm = <<>> /\ rel = "none"
    /\ match = FALSE /\ diff = NoComparison

IdleMain ==
    /\ regFile = [games |-> [g \in Games |-> [status |-> "pending", scenarios_count |-> 0, file |-> "game.bas"]],
                  last_updated |-> "old",
                  stats |-> [total_games |-> 2, tested |-> 0, pending |-> 2, failed |-> 0]]
    /\ golden = [g \in Games |-> [s \in Scenarios |-> Absent]]
    /\ gameFiles = Games
    /\ scenarioFiles = AllScenarioFiles
    /\ pc = "idle"
    /\ cmd = NoCmd
    /\ registry = regFile
    /\ queue = <<>>
    /\ allResults = <<>>
    /\ cur = "-"
    /\ idx = 0
    /\ results = <<>>
    /\ runs = <<>>
    /\ ret = "none"
    /\ lastExit = "none"
    /\ history = InitHistory

IdleRun ==
    /\ platform = "unix"
    /\ environ = [BASIC8K_PATH |-> NoEnv, override_exists |-> FALSE, built |-> TRUE,
                  build_ok |-> TRUE]
    /\ interpreter = "none"
    /\ rpc = "start"
    /\ child = "none"
    /\ helpers = <<>>
    /\ out = <<>>
    /\ err = <<>>
    /\ exc = "none"
    /\ excMsg = <<>>
    /\ retval = <<>>

IdleFetch ==
    /\ retries = 0 /\ attempt = 0 /\ fpc = "loop" /\ requests = <<>> /\ slept = 0
    /\ fetched = None

Init == InitMain /\ IdleNorm /\ IdleRun /\ IdleConc /\ IdleFetch
Next == NextMain
Spec == Init /\ [][Next]_vars

InitSpecNorm == InitNorm /\ IdleMain /\ IdleRun /\ IdleConc /\ IdleFetch
SpecNorm == InitSpecNorm /\ [][NextNorm]_vars

InitSpecRun == InitRun /\ IdleNorm /\ IdleMain /\ IdleConc /\ IdleFetch
SpecRun == InitSpecRun /\ [][NextRun]_vars

InitSpecConc == InitConc /\ IdleNorm /\ IdleMain /\ IdleRun /\ IdleFetch
SpecConc == InitSpecConc /\ [][NextConc]_vars

InitSpecFetch == InitFetch /\ IdleNorm /\ IdleMain /\ IdleRun /\ IdleConc
SpecFetch == InitSpecFetch /\ [][NextFetch]_vars

\* Every request ends, by its answer or after timeout=30, and every sleep
\* ends: fetch_url goes on as long as it has a step to take.
SpecFetchFair == SpecFetch /\ WF_vars(NextFetch)

\* ------------------------------------------------------------------------
\* Claims
\* ------------------------------------------------------------------------

\* test_game has run all scenarios of cur and has returned to main.
FullRunDone == pc = "tg_ret" /\ idx > 0

\* The status of g as the invocation holds it (the registry file lags until
\* save_registry).
StatusOf(g) == registry.games[g].status

\* C1: after test_game has run all scenarios of a subject, its status is
\* 'failed' if a verdict is FAIL, else 'tested' if a verdict is PASS, else
\* the status it had before the run (the one the registry file still holds).
C1_StatusAfterRun ==
    FullRunDone =>
        LET passed == Count(results, "PASS")
            failed == Count(results, "FAIL")
        IN  /\ failed > 0 => StatusOf(cur) = "failed"
            /\ (failed = 0 /\ passed > 0) => StatusOf(cur) = "tested"
            /\ (failed = 0 /\ passed = 0) => StatusOf(cur) = regFile.games[cur].status

\* A run with a PASS and a FAIL has ended and the subject is 'failed'.
C1_Witness ==
    /\ FullRunDone
    /\ Count(results, "PASS") > 0
    /\ Count(results, "FAIL") > 0
    /\ StatusOf(cur) = "failed"

\* C2: once an invocation has saved the registry, the saved total equals the
\* number of games and tested + pending + failed equals the total.
C2_StatsConsistent ==
    lastExit # "none" =>
        /\ regFile.stats.total_games = Cardinality(DOMAIN regFile.games)
        /\ regFile.stats.tested + regFile.stats.pending + regFile.stats.failed
              = regFile.stats.total_games

\* C3 as claimed: once a subject has had a full run, its status is 'tested'
\* iff the most recent full run had no FAIL and a PASS, 'failed' iff that run
\* had a FAIL, and 'pending' otherwise (stated for the entries that have one
\* of the three statuses).
C3_StatusMatchesLastRun ==
    \A g \in Games :
        (history[g].last # "none" /\ StatusOf(g) # NoStatus) =>
            /\ StatusOf(g) = "tested" <=> history[g].last = "pass"
            /\ StatusOf(g) = "failed" <=> history[g].last = "fail"
            /\ StatusOf(g) = "pending" <=> history[g].last = "allskip"

\* C3 amended: the status follows the most recent full run that had a PASS or
\* a FAIL ('tested' iff it had no FAIL, 'failed' iff it had one), and as long
\* as a subject has had no such run, full runs in which every scenario is
\* skipped included, its status stays what it was.
C3_StatusMatchesDecisiveRun ==
    /\ [](\A g \in Games :
            history[g].decisive # "none" =>
                /\ StatusOf(g) = "tested" <=> history[g].decisive = "pass"
                /\ StatusOf(g) = "failed" <=> history[g].decisive = "fail")
    /\ [][\A g \in Games :
            history'[g].decisive = "none" =>
                registry'.games[g].status = registry.games[g].status]_vars

\* A subject that was 'tested' has had a full run of skipped scenarios only
\* and is still 'tested'.
C3_Witness ==
    \E g \in Games :
        /\ history[g].last = "allskip"
        /\ history[g].decisive = "none"
        /\ StatusOf(g) = "tested"

\* C4: in test_game a scenario without golden file gets the verdict SKIP and
\* no subject run, and every scenario of the subject gets a verdict, in
\* order, whatever was skipped before it.
C4_MissingGoldenSkips ==
    (pc \in {"tg_loop", "tg_ret"} /\ idx > 0) =>
        /\ Len(results) = idx - 1
        /\ \A i \in 1..Len(results) :
              /\ results[i].name = scenarioFiles[cur][i]
              /\ ~golden[cur][results[i].name].exists =>
                    /\ results[i].verdict = "SKIP"
                    /\ \A j \in 1..Len(runs) : runs[j].name # results[i].name
        /\ pc = "tg_ret" => Len(results) = Len(scenarioFiles[cur])

\* The first scenario was skipped for want of a golden file and the second
\* was run and compared.
C4_Witness ==
    /\ FullRunDone
    /\ Len(results) = 2
    /\ ~golden[cur][results[1].name].exists
    /\ results[1].verdict = "SKIP"
    /\ results[2].verdict \in {"PASS", "FAIL"}
    /\ \E j \in 1..Len(runs) : runs[j].name = results[2].name

\* C5: no step of a test command changes the golden store, and a step that
\* changes it is a step of the scenario loop of generate_golden.
C5_TestLeavesGolden ==
    [][/\ (cmd.name \in {"test", "test_all"} \/ cmd'.name \in {"test", "test_all"})
            => golden' = golden
       /\ golden' # golden => (cmd.name = "generate" /\ pc = "gen_loop")]_vars

\* A test run has ended with a skipped scenario (no golden file) and a failed
\* one (golden file differing from the output), the store as it was.
C5_Witness ==
    /\ FullRunDone
    /\ cmd.name = "test"
    /\ Count(results, "SKIP") > 0
    /\ Count(results, "FAIL") > 0
    /\ \E i \in 1..Len(results) : ~golden[cur][results[i].name].exists

\* run_interpreter has returned from the except clause of TimeoutExpired.
TimedOutReturn == rpc = "returned" /\ exc = "TimeoutExpired"

\* C8: when the subject was still running at the deadline, run_interpreter
\* returns what the subject had written before it was killed, standard output
\* followed by standard error (as for every output, through strip_banner).
C8_PartialOutputKept ==
    TimedOutReturn => retval = strip_banner(out \o err)

\* C9: when run_interpreter returns after a timeout, the subject has been
\* reaped and no process of its tree is running, on either platform.
C9_NoProcessLeft ==
    TimedOutReturn => (child = "reaped" /\ Running(helpers) = {})

\* C10: a scenario whose subject run timed out never has the verdict PASS.
C10_TimeoutNeverPasses ==
    pc \in {"tg_loop", "tg_ret"} =>
        \A j \in 1..Len(runs) :
            runs[j].exc = "TimeoutExpired" =>
                \A i \in 1..Len(results) :
                    results[i].name = runs[j].name => results[i].verdict # "PASS"

\* C6: normalizing a normalized transcript changes nothing.
C6_Idempotent == rel = "again" => otherNorm = once

\* C7: a transcript with an escape sequence or a bell inserted at any position
\* normalizes to the same text as the transcript without it.
C7_ControlInvariant == rel = "inserted" => otherNorm = once

\* C11: in test_game a scenario whose subject run timed out or could not be
\* launched has the verdict TIMEOUT or ERROR, not a verdict of the comparison
\* with the golden record.
C11_TimeoutErrorVerdicts ==
    pc \in {"tg_loop", "tg_ret"} =>
        \A i \in 1..Len(runs), j \in 1..Len(results) :
            (runs[i].exc # "none" /\ results[j].name = runs[i].name)
                => results[j].verdict \in {"TIMEOUT", "ERROR"}

\* A FAIL verdict was produced in the scope of the test command: by the one
\* test_game of `test GAME`, or by a test_game of `test --all` (it returned
\* False after its loop, the game file being there).
FailInScope ==
    IF cmd.name = "test_all"
    THEN \E i \in 1..Len(allResults) :
            allResults[i][2] = "False" /\ find_game_file(allResults[i][1], registry)
    ELSE Count(results, "FAIL") > 0

\* C14: a test command ends with exit code 0 if and only if it produced no
\* FAIL verdict.
C14_ExitCodeReflectsFail ==
    [][(pc = "finally" /\ cmd.name \in {"test", "test_all"})
          => ((lastExit' = "0") <=> ~FailInScope)]_vars

\* C15: every change of a status, in the invocation or in the registry file,
\* is pending->tested, pending->failed, tested->failed or failed->tested.
C15_StatusTransitions ==
    [][\A g \in Games :
          /\ registry'.games[g].status # registry.games[g].status
                => <<registry.games[g].status, registry'.games[g].status>> \in
                      {<<"pending", "tested">>, <<"pending", "failed">>,
                       <<"tested", "failed">>, <<"failed", "tested">>}
          /\ regFile'.games[g].status # regFile.games[g].status
                => <<regFile.games[g].status, regFile'.games[g].status>> \in
                      {<<"pending", "tested">>, <<"pending", "failed">>,
                       <<"tested", "failed">>, <<"failed", "tested">>}]_vars

\* C16: a registry file written by save_registry holds, for each of tested,
\* pending and failed, the number of games that have that status in the file.
C16_StatsRecomputed ==
    regFile.last_updated = "today" =>
        \A st \in {"tested", "pending", "failed"} :
            regFile.stats[st] =
                Cardinality({g \in DOMAIN regFile.games : regFile.games[g].status = st})

\* A saved file whose tested count is one: no registry file of the start
\* holds that count.
C16_Witness ==
    /\ regFile.last_updated = "today"
    /\ regFile.stats.tested = 1
    /\ regFile.stats.failed = 1

\* The line of the final summary of `test --all` for a result of test_game.
TallyStatus(result) ==
    IF result = "True" THEN "PASS" ELSE IF result = "False" THEN "FAIL" ELSE "SKIP"

\* C17: in `test --all`, a game whose scenarios were all skipped for want of a
\* golden file is tallied as skipped.
C17_AllSkipCountsSkipped ==
    (/\ pc = "tg_ret" /\ cmd.name = "test_all" /\ idx > 0
     /\ \A j \in 1..Len(results) : results[j].verdict = "SKIP")
        => TallyStatus(ret) = "SKIP"

\* C12: a call of run_interpreter that finds the interpreter missing or not
\* runnable goes on to return to test_game; it never ends the process, which
\* would leave the remaining scenarios and games untested.
C12_LaunchFailureReturns == rpc # "sys_exit"

\* C13: compare_outputs reports equality exactly when the two texts have the
\* same normalization (strip_banner, then normalize_output).
C13_CompareIsNormalizedEquality ==
    rel = "compared" => (match <=> (once = otherNorm))

\* The line AddPreamble has put before raw.
Preamble == SubSeq(other, 1, Len(other) - Len(raw) - 1)

\* C19 as claimed: a transcript and the same transcript after one more line
\* that holds a banner marker, is a lone OK or is blank normalize to the same
\* text.
C19_PreambleAgnostic ==
    (rel = "preamble" /\ IsBannerLine(Preamble)) => otherNorm = once

\* C19 amended: the same, for a line that holds a banner marker, is a lone OK
\* or is blank once its bells, escape sequences and carriage returns are
\* removed.
C19_CleanPreambleAgnostic ==
    (rel = "preamble" /\ IsBannerLine(StripControl(Preamble))) => otherNorm = once

\* A banner line before a transcript that has content and a banner line
\* after it.
C19_Witness ==
    /\ rel = "preamble"
    /\ Preamble = COPYRIGHT
    /\ raw = join(<<OK, <<65>>, COPYRIGHT>>)
    /\ once = join(<<(<<65>>), COPYRIGHT>>)
    /\ otherNorm = once

\* The lines the banner loop reads.
LoopLines == split(StripControl(other))

\* Index of the first line the loop does not drop; past the end if none.
FirstContent ==
    IF \E k \in 1..Len(LoopLines) : ~IsBannerLine(LoopLines[k])
    THEN CHOOSE k \in 1..Len(LoopLines) :
            /\ ~IsBannerLine(LoopLines[k])
            /\ \A j \in 1..(k - 1) : IsBannerLine(LoopLines[j])
    ELSE Len(LoopLines) + 1

\* C20: strip_banner drops the lines before the first line that is neither a
\* banner line, a lone OK nor blank, and emits that line and every line after
\* it unchanged and in order.
C20_BannerSkipOneWay ==
    rel = "stripped" =>
        otherNorm = join(SubSeq(LoopLines, FirstContent, Len(LoopLines)))

\* A transcript with a prompt, content, then a blank line and a banner line
\* that are kept.
C20_Witness ==
    /\ rel = "stripped"
    /\ raw = join(<<OK, <<65>>, COPYRIGHT>>)
    /\ otherNorm = join(<<(<<65>>), COPYRIGHT>>)

\* C18: when both overlapping invocations have saved, the registry file holds
\* for each of the two games the status its invocation's test_game left.
C18_NoLostUpdate ==
    (\A i \in Invocations : invs[i].pc = "done") =>
        \A i \in Invocations :
            sharedFile.games[GameOf(i)].status =
                invs[i].registry.games[GameOf(i)].status

\* C26: a step of test_game changes no registry entry but the one of its
\* game, in that entry only status and scenarios_count, and nothing else of
\* the registry; a test_game that returns before its scenario loop changes
\* nothing of the registry.
C26_TestGameFrame ==
    [][(pc \in {"tg_enter", "tg_loop"}) =>
         (/\ DOMAIN registry'.games = DOMAIN registry.games
          /\ registry'.stats = registry.stats
          /\ registry'.last_updated = registry.last_updated
          /\ \A g \in DOMAIN registry.games :
                /\ g # cur => registry'.games[g] = registry.games[g]
                /\ registry'.games[g].file = registry.games[g].file
          /\ (pc' = "tg_ret" /\ idx' = 0) => registry' = registry
          /\ regFile' = regFile)]_vars

\* test_game has returned after changing both fields of the entry of G1,
\* while G2 is in the registry with a status of its own.
C26_Witness ==
    /\ pc = "tg_ret" /\ idx > 0 /\ cur = "G1"
    /\ registry.games["G1"].status = "failed"
    /\ regFile.games["G1"].status = "tested"
    /\ registry.games["G1"].scenarios_count # regFile.games["G1"].scenarios_count
    /\ registry.games["G2"].status = "tested"

\* C27: an iteration of generate_golden writes the golden file of its
\* scenario, with the output of the run, if and only if the run did not time
\* out; after a timeout the golden store is as before; the loop goes on.
C27_GenerateWritesUnlessTimeout ==
    [][(pc = "gen_loop" /\ idx <= Len(scenarioFiles[cur])) =>
         (LET s == scenarioFiles[cur][idx]
              e == runs'[Len(runs')].exc
          IN  /\ e = "TimeoutExpired" => golden' = golden
              /\ e # "TimeoutExpired" =>
                    golden'[cur][s] \in
                        {File(run_interpreter(o)) : o \in {x \in Outcomes : x.exc = e}}
              /\ idx' = idx + 1 /\ pc' = "gen_loop")]_vars

\* C25: with BASIC8K_PATH set, the path get_interpreter_path has returned is
\* the value of BASIC8K_PATH.
C25_OverrideTakesPrecedence ==
    (rpc \notin {"start", "sys_exit"} /\ environ.BASIC8K_PATH \notin {NoEnv, ""})
        => interpreter = environ.BASIC8K_PATH

\* ------------------------------------------------------------------------
\* C21 : normalize_output of the runner removes the trailing whitespace of
\* every line and only that: each line it returns is a line of its input
\* with a suffix of whitespace removed, leading whitespace included; the
\* lines it returns are those from the first to the last line that is not
\* blank, so that blank lines between them are kept (as empty lines) and
\* only the blank lines at the start and at the end are dropped.
\* ------------------------------------------------------------------------
Blank(line) == \A j \in 1..Len(line) : IsSpace(line[j])

TrailingWhitespaceRemoved(outLine, inLine) ==
    /\ Len(outLine) <= Len(inLine)
    /\ outLine = SubSeq(inLine, 1, Len(outLine))
    /\ \A j \in (Len(outLine) + 1)..Len(inLine) : IsSpace(inLine[j])
    /\ outLine = <<>> \/ ~IsSpace(outLine[Len(outLine)])

C21_NormalizeOutputTrimsRightOnly ==
    rel = "normalized_output" =>
        LET inLines == split(other)
            content == {k \in 1..Len(inLines) : ~Blank(inLines[k])}
        IN  IF content = {} THEN otherNorm = <<>>
            ELSE LET first == CHOOSE k \in content : \A j \in content : k <= j
                     last == CHOOSE k \in content : \A j \in content : j <= k
                     outLines == split(otherNorm)
                 IN  /\ Len(outLines) = last - first + 1
                     /\ \A k \in 1..Len(outLines) :
                           TrailingWhitespaceRemoved(outLines[k], inLines[first + k - 1])

\* " OK ", a blank line, "A " : the leading space and the blank line stay.
C21_Witness ==
    /\ rel = "normalized_output"
    /\ other = join(<< <<SP>> \o OK \o <<SP>>, <<>>, <<65, SP>> >>)
    /\ otherNorm = <<SP>> \o OK \o <<LF, LF, 65>>

\* ------------------------------------------------------------------------
\* C22 : compare_outputs of test_harness.py and of run_hamurabi_test.py
\* report two outputs that differ in the leading whitespace of a line with
\* content as unequal.
\* ------------------------------------------------------------------------
C22_LeadingWhitespaceSignificant ==
    rel \in {"indented_harness", "indented_hamurabi"} => ~match

\* ------------------------------------------------------------------------
\* C24 : a golden file generated from a raw output that is not a timeout is
\* stored, and a test run in which the subject writes the same raw output
\* has the verdict PASS.
\* ------------------------------------------------------------------------
C24_RoundTripPasses ==
    (rel \in {"round_trip", "not_stored"} /\ ~Contains(raw, TIMEOUT_ERROR)) =>
        rel = "round_trip" /\ match

C24_Witness ==
    /\ rel = "round_trip"
    /\ match
    /\ raw = join(<<COPYRIGHT, <<65, SP>>, <<>> >>)
    /\ other = <<65, SP, LF>>

\* ------------------------------------------------------------------------
\* C28 : the golden text each standalone generator makes of a raw output
\* compares equal, under compare_outputs of the runner, to the runner's
\* strip_banner of the same raw output.
\* ------------------------------------------------------------------------
C28_StandaloneGoldensAgree ==
    rel \in {"gen_golden", "generate_golden_simple", "generate_loop_game_golden"}
        => match

\* ------------------------------------------------------------------------
\* C29 : what extract_output returns is empty or begins with a start marker,
\* a line that contains "===" and is not an END marker.
\* ------------------------------------------------------------------------
C29_ExtractBeginsAtStartMarker ==
    rel \in {"extracted", "extracted_after_run"} =>
        \/ otherNorm = <<>>
        \/ LET line == split(otherNorm)[1]
           IN  Contains(line, EQUALS3) /\ ~Contains(upper(line), EQUALS3_END)

\* ------------------------------------------------------------------------
\* C23 : compare_outputs returns None as its diff exactly when it reports
\* equality, and a diff that is not empty exactly when it reports
\* inequality. The first two lines of that diff name the game and the
\* scenario; every line of the normalized golden text that is no line of the
\* normalized actual text stands in it after "-" and nowhere else, every
\* line of the actual text that is no line of the golden text after "+" and
\* nowhere else.
\* ------------------------------------------------------------------------
C23_DiffMarksSides ==
    rel = "compared" =>
        LET r == diff.result
            golden_lines == split(normalize_output(other))
            c_lines == split(normalize_output(raw))
            name == IF diff.scenario_name = "" THEN <<diff.game_name>>
                    ELSE <<diff.game_name, "/", diff.scenario_name>>
            Tagged(t) == {r.lines[k].line :
                            k \in {j \in 1..Len(r.lines) : r.lines[j].tag = t}}
            LinesOf(ls) == {ls[k] : k \in 1..Len(ls)}
        IN  /\ match <=> r.none
            /\ ~match <=> r.lines # <<>>
            /\ ~match =>
                /\ r.lines[1].tag = "---" /\ r.lines[1].file = name \o <<".golden">>
                /\ r.lines[2].tag = "+++" /\ r.lines[2].file = name \o <<".c">>
                /\ \A l \in LinesOf(golden_lines) \ LinesOf(c_lines) :
                      l \in Tagged("-") /\ l \notin Tagged("+") \cup Tagged(" ")
                /\ \A l \in LinesOf(c_lines) \ LinesOf(golden_lines) :
                      l \in Tagged("+") /\ l \notin Tagged("-") \cup Tagged(" ")

\* "A" then "COPYRIGHT" against the golden text "A" then "OK": a line of
\* context, a line after "-" and a line after "+".
C23_Witness ==
    /\ rel = "compared"
    /\ ~match
    /\ diff.scenario_name = "s1"
    /\ Len(diff.result.lines) = 6
    /\ diff.result.lines[4] = DiffLine(" ", <<65>>)
    /\ diff.result.lines[5] = DiffLine("-", OK)
    /\ diff.result.lines[6] = DiffLine("+", COPYRIGHT)

\* ------------------------------------------------------------------------
\* C30 : fetch_url returns, after at most `retries` requests. No request
\* follows one that succeeded or that was answered HTTP 404; fetch_url
\* returns at once after such a request, the body of the one that succeeded
\* or None after the 404; otherwise it returns None when `retries` requests
\* have failed.
\* ------------------------------------------------------------------------
Decisive(response) ==
    response.kind = "ok" \/ (response.kind = "HTTPError" /\ response.code = 404)

FetchContract ==
    /\ Len(requests) <= retries
    /\ \A k \in 1..(Len(requests) - 1) : ~Decisive(requests[k])
    /\ (requests # <<>> /\ Decisive(requests[Len(requests)])) =>
          /\ fpc = "returned"
          /\ fetched = IF requests[Len(requests)].kind = "ok"
                       THEN requests[Len(requests)].body ELSE None
    /\ (fpc = "returned" /\ (requests = <<>> \/ ~Decisive(requests[Len(requests)]))) =>
          /\ Len(requests) = retries
          /\ fetched = None

C30_FetchTerminates == []FetchContract /\ <>(fpc = "returned")

\* Two requests fail, the second of them rate limited, and the third is
\* answered.
C30_Witness ==
    /\ fpc = "returned"
    /\ retries = 3
    /\ Len(requests) = 3
    /\ requests[1].kind = "URLError"
    /\ requests[2].code = 403
    /\ fetched = "body2"
    /\ slept = 4

====
